---- MODULE Spec2Model ----
(***************************************************************************)
(* Model of lastbottlewines: the run orchestrator main() of last_bottle.py *)
(* with the score parser (scorer.py), the eligibility filter (config.py),  *)
(* the SQLite store (wine_database.py), the error digest (log.py) and the  *)
(* Lambda handler with its S3 sync (lambda_handler.py, s3.py).             *)
(*                                                                         *)
(* Texts are sequences of one-character strings.  An optional value is a   *)
(* tuple: <<>> is Python's None and <<x>> is the value x.                  *)
(***************************************************************************)
EXTENDS Integers, Sequences, FiniteSets, TLC

VARIABLES
    now,          \* the wall clock, in days
    db,           \* wines.db: [wines, user_scores, wine_seq, score_seq]
    owner,        \* what data/user_configs/jason.yaml holds
    error_buffer, \* logs/error_buffer.json: the buffered errors, <<run, what>>
    pc,           \* main(): "idle", "loop", "done" (returned), "raised"
    runs,         \* number of runs of main() started
    cur,          \* main()'s locals: wine_name, price, wine_id, timestamp
    todo,         \* config files the glob of this run has not yielded yet
    it,           \* the last iteration of the per-user loop (its locals)
    obs,          \* what this run did: digest calls, digest emails, ...
    call,         \* a direct call of a function: its name and arguments
    ret,          \* what that call returned; <<"pending">> before it ran
    ncalls,       \* number of direct calls of WineDatabase methods made
    aws           \* the Lambda handler: where it is, what its syncs did, the bucket

vars == <<now, db, owner, error_buffer, pc, runs, cur, todo, it, obs,
          call, ret, ncalls, aws>>

----------------------------------------------------------------------------
(* Bounds of the model *)

MaxRuns == 2      \* runs of main() in one behaviour
MaxWines == 1     \* rows of the wines table
MaxLen == 4       \* length of an oracle text given to the parser
MaxPrice == 3     \* prices and price bounds are 0..MaxPrice
MaxCalls == 3     \* direct WineDatabase calls in one behaviour

(* Program constants *)

DupDays == 7      \* is_duplicate_wine(days=7)
MinScore == 0     \* 0 <= score
MaxScore == 100   \* score <= 100

None == <<>>
Some(x) == <<x>>

----------------------------------------------------------------------------
(* scorer.py: the parsing part of score_wine *)

Digits == {"0", "1", "5", "9"}
Alphabet == Digits \cup {"a", " ", "-", "\n"}

IsSpace(c) == c \in {" ", "\n"}
\* \w of the regular expression: a letter, a digit or an underscore
IsWord(c) == c \in Digits \cup {"a"}

DigitVal(c) == CASE c = "0" -> 0 [] c = "1" -> 1 [] c = "5" -> 5 [] c = "9" -> 9

RECURSIVE lstrip(_)
lstrip(s) == IF s # <<>> /\ IsSpace(Head(s)) THEN lstrip(Tail(s)) ELSE s

RECURSIVE rstrip(_)
rstrip(s) ==
    IF s # <<>> /\ IsSpace(s[Len(s)]) THEN rstrip(SubSeq(s, 1, Len(s) - 1)) ELSE s

\* str.strip()
strip(s) == rstrip(lstrip(s))

\* str.splitlines(): the lines of s, without their line ends; [] for ""
RECURSIVE splitlines(_)
splitlines(s) ==
    IF s = <<>> THEN <<>>
    ELSE LET nl == {i \in 1..Len(s) : s[i] = "\n"}
         IN  IF nl = {} THEN <<s>>
             ELSE LET i == CHOOSE j \in nl : \A k \in nl : j <= k
                  IN  <<SubSeq(s, 1, i - 1)>> \o splitlines(SubSeq(s, i + 1, Len(s)))

\* int() of a run of digits
RECURSIVE int(_)
int(s) == IF s = <<>> THEN 0 ELSE 10 * int(SubSeq(s, 1, Len(s) - 1)) + DigitVal(s[Len(s)])

\* \b at the gap before position i of line (1..Len+1)
boundary(line, i) ==
    LET before == i > 1 /\ IsWord(line[i - 1])
        after  == i <= Len(line) /\ IsWord(line[i])
    IN  before # after

\* matches with the word boundaries of the pattern left out
matches_NoBoundary(line, i, k) ==
    /\ i + k - 1 <= Len(line)
    /\ \A j \in i..(i + k - 1) : line[j] \in Digits

\* \b(\d{1,3})\b matches at position i with a group of k digits
matches(line, i, k) ==
    /\ i + k - 1 <= Len(line)
    /\ \A j \in i..(i + k - 1) : line[j] \in Digits
    /\ boundary(line, i)
    /\ boundary(line, i + k)

\* re.search(r"\b(\d{1,3})\b", line): the group of the leftmost match, the
\* longest the greedy \d{1,3} can take there; None if nothing matches
search(line) ==
    LET hits == {i \in 1..Len(line) : \E k \in 1..3 : matches(line, i, k)}
    IN  IF hits = {} THEN None
        ELSE LET i == CHOOSE j \in hits : \A h \in hits : j <= h
                 k == CHOOSE n \in 1..3 :
                        /\ matches(line, i, n)
                        /\ \A m \in 1..3 : matches(line, i, m) => m <= n
             IN  Some(SubSeq(line, i, i + k - 1))

\* score_wine after the oracle answered response_text: <<"int", n>> is the
\* returned score, <<"none">> is return None, <<"raise">> an exception
parse_score(response_text) ==
    LET stripped == strip(response_text)
        lines == splitlines(stripped)
    IN  IF lines = <<>> THEN <<"raise">>          \* [][-1]: IndexError
        ELSE LET last_line == strip(lines[Len(lines)])
                 match == search(last_line)
             IN  IF match # None /\ MinScore <= int(match[1]) /\ int(match[1]) <= MaxScore
                 THEN <<"int", int(match[1])>>
                 ELSE <<"none">>

----------------------------------------------------------------------------
(* config.py: in_price_range.  A config's price_range is <<"missing">> (no
   such key: the default [None, None] is used), <<"pair", lo, hi>> with
   optional bounds, or <<"null">> (the key is there with no list under it) *)

OptBounds == {None} \cup {Some(b) : b \in 0..MaxPrice}
PriceRanges ==
    {<<"missing">>, <<"null">>} \cup {<<"pair", lo, hi>> : lo \in OptBounds, hi \in OptBounds}

\* config.get("price_range", [None, None])
price_range_of(config) ==
    IF config.price_range = <<"missing">> THEN <<"pair", None, None>>
    ELSE config.price_range

\* in_price_range with a price equal to a bound excluded
in_price_range_Strict(price, config) ==
    LET price_range == price_range_of(config)
    IN  IF price_range = <<"null">> THEN "raise"
        ELSE IF price_range[2] # None /\ price <= price_range[2][1] THEN "false"
        ELSE IF price_range[3] # None /\ price >= price_range[3][1] THEN "false"
        ELSE "true"

\* in_price_range with the check of the maximum left out
in_price_range_NoMax(price, config) ==
    LET price_range == price_range_of(config)
    IN  IF price_range = <<"null">> THEN "raise"
        ELSE IF price_range[2] # None /\ price < price_range[2][1] THEN "false"
        ELSE "true"

\* "true", "false", or "raise" (None[0]: TypeError)
in_price_range(price, config) ==
    LET price_range == price_range_of(config)
    IN  IF price_range = <<"null">> THEN "raise"
        ELSE IF price_range[2] # None /\ price < price_range[2][1] THEN "false"
        ELSE IF price_range[3] # None /\ price > price_range[3][1] THEN "false"
        ELSE "true"

----------------------------------------------------------------------------
(* wine_database.py: the store.  A call returns [db, result]: the store
   after the call and <<"ok", id>> or <<"raise", exception>> *)

Names == {"Opus One", "Table Red"}
Users == {"alice", "jason", "template"}

EmptyDb == [wines |-> {}, user_scores |-> {}, wine_seq |-> 0, score_seq |-> 0]

\* timestamp: Optional[datetime] = None; None is datetime.now()
stamp(timestamp) == IF timestamp = None THEN now ELSE timestamp[1]

\* WineDatabase.get_wine: the rows with that id (at most one)
get_wine(d, wine_id) == {w \in d.wines : w.id = wine_id}

\* WineDatabase.add_wine: timestamp is UNIQUE, id is AUTOINCREMENT
add_wine(d, wine_name, price, timestamp) ==
    IF \E w \in d.wines : w.timestamp = stamp(timestamp)
    THEN [db |-> d, result |-> <<"raise", "IntegrityError">>]
    ELSE LET id == d.wine_seq + 1
             row == [id |-> id, timestamp |-> stamp(timestamp),
                     wine_name |-> wine_name, price |-> price]
         IN  [db |-> [d EXCEPT !.wines = @ \cup {row}, !.wine_seq = id],
              result |-> <<"ok", id>>]

\* add_user_score that clamps a score into 0..100 instead of raising
add_user_score_Clamp(d, user_id, wine_id, score, timestamp) ==
    IF get_wine(d, wine_id) = {}
    THEN [db |-> d, result |-> <<"raise", "ValueError">>]
    ELSE LET wine == CHOOSE w \in get_wine(d, wine_id) : TRUE
             id == d.score_seq + 1
             clamped == IF score < MinScore THEN MinScore
                        ELSE IF score > MaxScore THEN MaxScore ELSE score
             row == [id |-> id, user_id |-> user_id, wine_id |-> wine_id,
                     wine_name |-> wine.wine_name, score |-> clamped,
                     timestamp |-> stamp(timestamp)]
             clash == {r \in d.user_scores :
                         /\ r.user_id = user_id
                         /\ r.wine_id = wine_id
                         /\ r.timestamp = stamp(timestamp)}
         IN  [db |-> [d EXCEPT !.user_scores = (@ \ clash) \cup {row},
                               !.score_seq = id],
              result |-> <<"ok", id>>]

\* add_user_score as a plain INSERT into a table with no UNIQUE constraint
add_user_score_Insert(d, user_id, wine_id, score, timestamp) ==
    IF ~(MinScore <= score /\ score <= MaxScore)
    THEN [db |-> d, result |-> <<"raise", "ValueError">>]
    ELSE IF get_wine(d, wine_id) = {}
    THEN [db |-> d, result |-> <<"raise", "ValueError">>]
    ELSE LET wine == CHOOSE w \in get_wine(d, wine_id) : TRUE
             id == d.score_seq + 1
             row == [id |-> id, user_id |-> user_id, wine_id |-> wine_id,
                     wine_name |-> wine.wine_name, score |-> score,
                     timestamp |-> stamp(timestamp)]
         IN  [db |-> [d EXCEPT !.user_scores = @ \cup {row}, !.score_seq = id],
              result |-> <<"ok", id>>]

\* add_user_score without the lookup of the wine: a row is written for any
\* wine_id, with no name when there is no such wine
add_user_score_NoLookup(d, user_id, wine_id, score, timestamp) ==
    IF ~(MinScore <= score /\ score <= MaxScore)
    THEN [db |-> d, result |-> <<"raise", "ValueError">>]
    ELSE LET id == d.score_seq + 1
             row == [id |-> id, user_id |-> user_id, wine_id |-> wine_id,
                     wine_name |-> IF get_wine(d, wine_id) = {} THEN ""
                                   ELSE (CHOOSE w \in get_wine(d, wine_id) : TRUE).wine_name,
                     score |-> score, timestamp |-> stamp(timestamp)]
             clash == {r \in d.user_scores :
                         /\ r.user_id = user_id
                         /\ r.wine_id = wine_id
                         /\ r.timestamp = stamp(timestamp)}
         IN  [db |-> [d EXCEPT !.user_scores = (@ \ clash) \cup {row},
                               !.score_seq = id],
              result |-> <<"ok", id>>]

\* WineDatabase.add_user_score: INSERT OR REPLACE under
\* UNIQUE(user_id, wine_id, timestamp)
add_user_score(d, user_id, wine_id, score, timestamp) ==
    IF ~(MinScore <= score /\ score <= MaxScore)
    THEN [db |-> d, result |-> <<"raise", "ValueError">>]
    ELSE IF get_wine(d, wine_id) = {}
    THEN [db |-> d, result |-> <<"raise", "ValueError">>]
    ELSE LET wine == CHOOSE w \in get_wine(d, wine_id) : TRUE
             id == d.score_seq + 1
             row == [id |-> id, user_id |-> user_id, wine_id |-> wine_id,
                     wine_name |-> wine.wine_name, score |-> score,
                     timestamp |-> stamp(timestamp)]
             clash == {r \in d.user_scores :
                         /\ r.user_id = user_id
                         /\ r.wine_id = wine_id
                         /\ r.timestamp = stamp(timestamp)}
         IN  [db |-> [d EXCEPT !.user_scores = (@ \ clash) \cup {row},
                               !.score_seq = id],
              result |-> <<"ok", id>>]

\* WineDatabase.is_duplicate_wine(wine_name, days=7), asked at time now
is_duplicate_wine(d, wine_name) ==
    \E w \in d.wines : w.wine_name = wine_name /\ w.timestamp >= now - DupDays

----------------------------------------------------------------------------
(* last_bottle.py: main(), one action per path through a step of it *)

\* what the offer source can return, and how long after the last run
Offers == {<<"Opus One", 3>>, <<"Table Red", 2>>}
Gaps == {DupDays, DupDays + 1}

\* the oracle's answers in a run
RunTexts == {<<>>, <<"0">>, <<"5", "0">>, <<"a">>}

\* the configs load_user_config can return in a run
Config(price_range, always_notify_for, notify_threshold) ==
    [price_range |-> price_range, always_notify_for |-> always_notify_for,
     notify_threshold |-> notify_threshold]
RunConfigs ==
    {Config(<<"missing">>, {}, <<"none">>),
     Config(<<"missing">>, {"Opus One"}, <<"none">>),
     Config(<<"pair", Some(1), Some(2)>>, {"Opus One"}, <<"int", 50>>),
     Config(<<"null">>, {}, <<"int", 50>>)}

NoConfig == [price_range |-> <<"missing">>, always_notify_for |-> {},
             notify_threshold |-> <<"none">>]
NoIt == [user |-> "", path |-> "none", config |-> NoConfig, resp |-> <<"nocall">>,
         score |-> <<"none">>, notify |-> FALSE, sent |-> FALSE]
NoCur == [wine_name |-> "", price |-> 0, wine_id |-> 0, timestamp |-> 0]
NoObs == [flush |-> 0, emails |-> 0, sent |-> {}, lost |-> {}, loop |-> FALSE,
          seen |-> {}, oracle |-> {}, notify |-> {}]

\* the decision with a score equal to the threshold not notifying
should_notify_Above(wine_name, score, config) ==
    IF wine_name \in config.always_notify_for THEN TRUE
    ELSE IF config.notify_threshold[1] = "int" THEN score > config.notify_threshold[2]
    ELSE FALSE

\* the decision with the threshold left out: only the list notifies
should_notify_ListOnly(wine_name, score, config) ==
    wine_name \in config.always_notify_for

\* the decision with the never-notify list as a veto
should_notify_Veto(wine_name, score, config) ==
    IF wine_name \in config.never_notify_for THEN FALSE
    ELSE IF wine_name \in config.always_notify_for THEN TRUE
    ELSE IF config.notify_threshold[1] = "int" THEN score >= config.notify_threshold[2]
    ELSE FALSE

\* main() lines 102-111: the notification decision
should_notify(wine_name, score, config) ==
    IF wine_name \in config.always_notify_for THEN TRUE
    ELSE IF config.notify_threshold[1] = "int" THEN score >= config.notify_threshold[2]
    ELSE FALSE

\* logger.error of a logger made by get_logger: one more entry in the buffer
logged(buf, what) == buf \cup {<<runs, what>>}

\* the digest as one email for each buffered error
send_error_digest_PerError(buf, o) ==
    /\ error_buffer' = {}
    /\ IF buf = {} \/ owner \in {"missing", "noemail"}
       THEN obs' = [o EXCEPT !.flush = @ + 1, !.lost = buf] /\ pc' = "done"
       ELSE IF owner = "malformed"
       THEN obs' = [o EXCEPT !.flush = @ + 1, !.lost = buf] /\ pc' = "raised"
       ELSE /\ obs' = [o EXCEPT !.flush = @ + 1, !.emails = @ + Cardinality(buf),
                                !.sent = buf]
            /\ pc' = "done"

\* log.py send_error_digest, called with the buffer holding buf and the
\* run's record o; it ends main(), so it sets pc
send_error_digest(buf, o) ==
    /\ error_buffer' = {}
    /\ IF buf = {}
       THEN obs' = [o EXCEPT !.flush = @ + 1] /\ pc' = "done"
       ELSE IF owner \in {"missing", "noemail"}
       THEN obs' = [o EXCEPT !.flush = @ + 1, !.lost = buf] /\ pc' = "done"
       ELSE IF owner = "malformed"
       THEN obs' = [o EXCEPT !.flush = @ + 1, !.lost = buf] /\ pc' = "raised"
       ELSE \E ok \in BOOLEAN :
            /\ obs' = [o EXCEPT !.flush = @ + 1, !.emails = @ + 1,
                                !.sent = IF ok THEN buf ELSE {},
                                !.lost = IF ok THEN {} ELSE buf]
            /\ pc' = "done"

Idle == pc = "idle" /\ runs < MaxRuns

\* what main() never touches
pure == <<call, ret, ncalls, aws>>

\* line 46: the clock read of the next run; time has passed since the last
Wait ==
    /\ pc \in {"done", "raised"}
    /\ runs < MaxRuns
    /\ \E gap \in Gaps : now' = now + gap
    /\ pc' = "idle"
    /\ cur' = NoCur /\ todo' = {} /\ it' = NoIt /\ obs' = NoObs
    /\ UNCHANGED <<db, owner, error_buffer, runs, pure>>

\* the failed scrape falling through into the loop over the configs
ScrapeFails_FallsThrough ==
    /\ Idle
    /\ runs' = runs + 1
    /\ error_buffer' = logged(error_buffer, "scrape")
    /\ obs' = [NoObs EXCEPT !.loop = TRUE]
    /\ pc' = "loop"
    /\ cur' = NoCur /\ todo' = Users /\ it' = NoIt
    /\ UNCHANGED <<now, db, owner, pure>>

\* lines 45-53: the scrape returns nothing
ScrapeFails ==
    /\ Idle
    /\ runs' = runs + 1
    /\ send_error_digest(logged(error_buffer, "scrape"), NoObs)
    /\ cur' = NoCur /\ todo' = {} /\ it' = NoIt
    /\ UNCHANGED <<now, db, owner, pure>>

\* the duplicate run with the wine recorded before the check
SkipDuplicate_Records ==
    /\ Idle
    /\ \E offer \in Offers :
        /\ is_duplicate_wine(db, offer[1])
        /\ db' = add_wine(db, offer[1], offer[2], Some(now)).db
        /\ cur' = [NoCur EXCEPT !.wine_name = offer[1], !.price = offer[2],
                                !.timestamp = now]
    /\ runs' = runs + 1
    /\ send_error_digest(error_buffer, NoObs)
    /\ todo' = {} /\ it' = NoIt
    /\ UNCHANGED <<now, owner, pure>>

\* lines 45-64: the wine was recorded in the last 7 days
SkipDuplicate ==
    /\ Idle
    /\ \E offer \in Offers :
        /\ is_duplicate_wine(db, offer[1])
        /\ cur' = [NoCur EXCEPT !.wine_name = offer[1], !.price = offer[2],
                                !.timestamp = now]
    /\ runs' = runs + 1
    /\ send_error_digest(error_buffer, NoObs)
    /\ todo' = {} /\ it' = NoIt
    /\ UNCHANGED <<now, db, owner, pure>>

\* lines 45-72: the wine is recorded, the user_configs directory is not there
ConfigDirMissing ==
    /\ Idle
    /\ owner = "missing"
    /\ \E offer \in Offers :
        /\ ~is_duplicate_wine(db, offer[1])
        /\ db.wine_seq < MaxWines
        /\ LET r == add_wine(db, offer[1], offer[2], Some(now))
           IN  /\ r.result[1] = "ok"
               /\ db' = r.db
               /\ cur' = [wine_name |-> offer[1], price |-> offer[2],
                          wine_id |-> r.result[2], timestamp |-> now]
    /\ runs' = runs + 1
    /\ send_error_digest(logged(error_buffer, "configs"), NoObs)
    /\ todo' = {} /\ it' = NoIt
    /\ UNCHANGED <<now, owner, pure>>

\* the files user_configs_dir.glob("*.yaml") yields
glob == IF owner = "missing" THEN Users \ {"jason"} ELSE Users

\* lines 45-74: the wine is recorded and the loop over the configs begins;
\* add_wine raises if the timestamp is already in the table
RecordOffer ==
    /\ Idle
    /\ \E offer \in Offers :
        /\ ~is_duplicate_wine(db, offer[1])
        /\ db.wine_seq < MaxWines
        /\ LET r == add_wine(db, offer[1], offer[2], Some(now))
           IN  /\ db' = r.db
               /\ IF r.result[1] = "ok"
                  THEN /\ cur' = [wine_name |-> offer[1], price |-> offer[2],
                                  wine_id |-> r.result[2], timestamp |-> now]
                       /\ pc' = "loop"
                       /\ todo' = glob
                       /\ obs' = [NoObs EXCEPT !.loop = TRUE]
                  ELSE /\ cur' = [NoCur EXCEPT !.wine_name = offer[1],
                                               !.price = offer[2], !.timestamp = now]
                       /\ pc' = "raised"
                       /\ todo' = {}
                       /\ obs' = NoObs
    /\ runs' = runs + 1
    /\ it' = NoIt
    /\ UNCHANGED <<now, owner, error_buffer, pure>>

\* config.py load_user_config of a user's file: it raises, or returns a config
Loads(user_id) ==
    IF user_id = "jason"
    THEN IF owner = "malformed" THEN {[ok |-> FALSE, config |-> NoConfig]}
         ELSE {[ok |-> TRUE, config |-> c] : c \in RunConfigs}
    ELSE {[ok |-> FALSE, config |-> NoConfig]} \cup {[ok |-> TRUE, config |-> c] : c \in RunConfigs}

\* the oracle: generate_content raises, or answers a text
Responses == {<<"raise">>} \cup {<<"text", t>> : t \in RunTexts}

\* scorer.py score_wine: the oracle call, then the parse of its answer
score_wine(resp) == IF resp[1] = "raise" THEN <<"raise">> ELSE parse_score(resp[2])

\* the loop takes the next file; looping is what every iteration path shares
Next_file(user_id) ==
    /\ pc = "loop"
    /\ user_id \in todo
    /\ todo' = todo \ {user_id}
    /\ UNCHANGED <<now, owner, runs, cur, pure>>

\* the loop with lines 76-77 left out: template.yaml is scored like a user
SkipTemplate_Processed ==
    /\ Next_file("template")
    /\ it' = [NoIt EXCEPT !.user = "template", !.path = "scored",
                          !.resp = <<"text", <<"5", "0">>>>, !.score = <<"int", 50>>]
    /\ db' = add_user_score(db, "template", cur.wine_id, 50, Some(cur.timestamp)).db
    /\ obs' = [obs EXCEPT !.seen = @ \cup {"template"}, !.oracle = @ \cup {"template"}]
    /\ UNCHANGED <<error_buffer, pc>>

\* lines 75-77: the template is skipped
SkipTemplate ==
    /\ Next_file("template")
    /\ it' = [NoIt EXCEPT !.user = "template", !.path = "template"]
    /\ UNCHANGED <<db, error_buffer, obs, pc>>

\* lines 79-83: load_user_config raises; logged, next file
LoadFails ==
    \E user_id \in todo \ {"template"} :
        /\ Next_file(user_id)
        /\ [ok |-> FALSE, config |-> NoConfig] \in Loads(user_id)
        /\ it' = [NoIt EXCEPT !.user = user_id, !.path = "load_failed"]
        /\ error_buffer' = logged(error_buffer, user_id)
        /\ obs' = [obs EXCEPT !.seen = @ \cup {user_id}]
        /\ UNCHANGED <<db, pc>>

\* lines 85-87: in_price_range raises (out of main) or excludes the user
PriceCheckStops ==
    \E user_id \in todo \ {"template"} : \E l \in Loads(user_id) :
        /\ Next_file(user_id)
        /\ l.ok
        /\ in_price_range(cur.price, l.config) # "true"
        /\ it' = [NoIt EXCEPT !.user = user_id, !.config = l.config,
                              !.path = IF in_price_range(cur.price, l.config) = "raise"
                                       THEN "price_raised" ELSE "excluded"]
        /\ pc' = IF in_price_range(cur.price, l.config) = "raise" THEN "raised" ELSE "loop"
        /\ obs' = [obs EXCEPT !.seen = @ \cup {user_id}]
        /\ UNCHANGED <<db, error_buffer>>

\* lines 89-91: score_wine raises, and the exception leaves main()
ScoreRaises ==
    \E user_id \in todo \ {"template"} : \E l \in Loads(user_id), resp \in Responses :
        /\ Next_file(user_id)
        /\ l.ok
        /\ in_price_range(cur.price, l.config) = "true"
        /\ score_wine(resp) = <<"raise">>
        /\ it' = [NoIt EXCEPT !.user = user_id, !.config = l.config, !.resp = resp,
                              !.score = <<"raise">>, !.path = "score_raised"]
        /\ pc' = "raised"
        /\ obs' = [obs EXCEPT !.seen = @ \cup {user_id}, !.oracle = @ \cup {user_id}]
        /\ UNCHANGED <<db, error_buffer>>

\* lines 89-95: score_wine returns None; logged, next file
ScoreNone ==
    \E user_id \in todo \ {"template"} : \E l \in Loads(user_id), resp \in Responses :
        /\ Next_file(user_id)
        /\ l.ok
        /\ in_price_range(cur.price, l.config) = "true"
        /\ score_wine(resp) = <<"none">>
        /\ it' = [NoIt EXCEPT !.user = user_id, !.config = l.config, !.resp = resp,
                              !.path = "no_score"]
        /\ error_buffer' = logged(error_buffer, user_id)
        /\ obs' = [obs EXCEPT !.seen = @ \cup {user_id}, !.oracle = @ \cup {user_id}]
        /\ UNCHANGED <<db, pc>>

\* notifier.py notify_user: it catches what _send_email raises, so the mail
\* went out or it did not; without an address in the config nothing is sent
Sent(user_id) == IF user_id = "jason" /\ owner = "noemail" THEN {FALSE} ELSE BOOLEAN

\* the scored iteration with no try around notify_user and none inside it:
\* a failed send leaves main()
Scored_SendEscapes ==
    \E user_id \in todo \ {"template"} : \E l \in Loads(user_id), resp \in Responses :
        /\ Next_file(user_id)
        /\ l.ok
        /\ in_price_range(cur.price, l.config) = "true"
        /\ score_wine(resp)[1] = "int"
        /\ LET score == score_wine(resp)[2]
               r == add_user_score(db, user_id, cur.wine_id, score, Some(cur.timestamp))
               notify == should_notify(cur.wine_name, score, l.config)
           IN  /\ db' = r.db
               /\ r.result[1] = "ok"
               /\ \E sent \in Sent(user_id) :
                    /\ it' = [user |-> user_id, path |-> "scored", config |-> l.config,
                              resp |-> resp, score |-> <<"int", score>>,
                              notify |-> notify, sent |-> notify /\ sent]
                    /\ obs' = [obs EXCEPT !.seen = @ \cup {user_id},
                                          !.oracle = @ \cup {user_id},
                                          !.notify = IF notify THEN @ \cup {user_id} ELSE @]
                    /\ pc' = IF notify /\ ~sent THEN "raised" ELSE "loop"
        /\ error_buffer' = error_buffer

\* lines 89-118: a score; it is stored, then the user is notified or not
Scored ==
    \E user_id \in todo \ {"template"} : \E l \in Loads(user_id), resp \in Responses :
        /\ Next_file(user_id)
        /\ l.ok
        /\ in_price_range(cur.price, l.config) = "true"
        /\ score_wine(resp)[1] = "int"
        /\ LET score == score_wine(resp)[2]
               r == add_user_score(db, user_id, cur.wine_id, score, Some(cur.timestamp))
               notify == should_notify(cur.wine_name, score, l.config)
           IN  /\ db' = r.db
               /\ IF r.result[1] = "ok"
                  THEN \E sent \in Sent(user_id) :
                        /\ it' = [user |-> user_id, path |-> "scored", config |-> l.config,
                                  resp |-> resp, score |-> <<"int", score>>,
                                  notify |-> notify, sent |-> notify /\ sent]
                        /\ obs' = [obs EXCEPT !.seen = @ \cup {user_id},
                                              !.oracle = @ \cup {user_id},
                                              !.notify = IF notify THEN @ \cup {user_id} ELSE @]
                        /\ pc' = "loop"
                  ELSE /\ it' = [NoIt EXCEPT !.user = user_id, !.config = l.config,
                                             !.resp = resp, !.score = <<"int", score>>,
                                             !.path = "store_raised"]
                       /\ obs' = [obs EXCEPT !.seen = @ \cup {user_id},
                                             !.oracle = @ \cup {user_id}]
                       /\ pc' = "raised"
        /\ error_buffer' = error_buffer

\* lines 120-121: the glob is exhausted; close and flush
Finish ==
    /\ pc = "loop"
    /\ todo = {}
    /\ send_error_digest(error_buffer, obs)
    /\ UNCHANGED <<now, db, owner, runs, cur, todo, it, pure>>

Owners == {"ok", "noemail", "malformed", "missing"}

\* no invocation yet, and a bucket with no object in it
NoAws == [at |-> "cold", fetch |-> "none", push |-> "none",
          s3 |-> [db |-> None, error_buffer |-> None]]

Init0 ==
    /\ now = 0
    /\ db = EmptyDb
    /\ error_buffer = {}
    /\ pc = "idle"
    /\ runs = 0
    /\ cur = NoCur
    /\ todo = {}
    /\ it = NoIt
    /\ obs = NoObs
    /\ ncalls = 0
    /\ aws = NoAws

Init ==
    /\ Init0
    /\ owner \in Owners
    /\ call = [fn |-> "none"]
    /\ ret = <<"none">>

Next ==
    \/ Wait
    \/ ScrapeFails
    \/ SkipDuplicate
    \/ ConfigDirMissing
    \/ RecordOffer
    \/ SkipTemplate
    \/ LoadFails
    \/ ScoreRaises
    \/ PriceCheckStops
    \/ ScoreNone
    \/ Scored
    \/ Finish

Spec == Init /\ [][Next]_vars

\* what a direct call of a function never touches
run == <<now, owner, error_buffer, pc, runs, cur, todo, it, obs, aws>>

----------------------------------------------------------------------------
(* lambda_handler.py: handler(event, context), with the syncs of s3.py.
   aws.at is "cold" between invocations, "main" while main() runs and
   "finally" when sync_data_from_s3 raised; aws.s3 holds the bucket's objects
   wines.db and logs/error_buffer.json, None for an object that is not there *)

\* s3.py sync_data_from_s3 when every download works: an object of the
\* bucket replaces the local file, a 404 leaves the local file as it is
sync_data_from_s3(d, buf, s3) ==
    [db |-> IF s3.db = None THEN d ELSE s3.db[1],
     error_buffer |-> IF s3.error_buffer = None THEN buf ELSE s3.error_buffer[1]]

\* s3.py sync_data_to_s3 when every upload works: upload_file skips a local
\* file that does not exist.  wines.db exists once a wine was recorded,
\* error_buffer.json exists while it holds an entry
sync_data_to_s3(d, buf, s3) ==
    [db |-> IF d = EmptyDb THEN s3.db ELSE Some(d),
     error_buffer |-> IF buf = {} THEN s3.error_buffer ELSE Some(buf)]

\* what the bucket does to a sync.  A fetch is "ok" (every download works or
\* answers 404) or it is "raise": an exception that is no ClientError, or the
\* listing of download_directory failing, leaves sync_data_from_s3.  A push
\* is "ok" or "failed": a ClientError, logged by upload_file and not raised.
\* A download that fails with a ClientError other than 404 (the local file
\* stays as it is) is not among the cases
FetchOutcomes == {"ok", "raise"}
PushOutcomes == {"ok", "failed"}

\* the push with no finally: it is made only when nothing was raised
handler_finally_OnSuccess ==
    /\ \/ aws.at = "finally"
       \/ aws.at = "main" /\ pc \in {"done", "raised"}
    /\ IF aws.at = "finally" \/ pc = "raised"
       THEN aws' = [aws EXCEPT !.at = "cold"]
       ELSE \E outcome \in PushOutcomes :
            aws' = [aws EXCEPT !.at = "cold", !.push = outcome,
                               !.s3 = IF outcome = "ok"
                                      THEN sync_data_to_s3(db, error_buffer, @) ELSE @]
    /\ cur' = NoCur /\ todo' = {} /\ it' = NoIt /\ obs' = NoObs
    /\ UNCHANGED <<now, db, owner, error_buffer, pc, runs, call, ret, ncalls>>

\* lines 33-37: an invocation begins, in a new container (/tmp is empty) or
\* in the one of the last invocation, and pulls the state from the bucket
handler_try ==
    /\ aws.at = "cold"
    /\ Idle
    /\ \E new \in BOOLEAN, outcome \in FetchOutcomes :
        LET d == IF new THEN EmptyDb ELSE db
            buf == IF new THEN {} ELSE error_buffer
            got == sync_data_from_s3(d, buf, aws.s3)
        IN  /\ db' = IF outcome = "ok" THEN got.db ELSE d
            /\ error_buffer' = IF outcome = "ok" THEN got.error_buffer ELSE buf
            /\ aws' = [aws EXCEPT !.at = IF outcome = "raise" THEN "finally" ELSE "main",
                                  !.fetch = outcome, !.push = "none"]
    /\ UNCHANGED <<now, owner, pc, runs, cur, todo, it, obs, call, ret, ncalls>>

\* line 40: main() runs, one step of it
handler_main ==
    /\ aws.at = "main"
    /\ \/ ScrapeFails
       \/ SkipDuplicate
       \/ ConfigDirMissing
       \/ RecordOffer
       \/ SkipTemplate
       \/ LoadFails
       \/ ScoreRaises
       \/ PriceCheckStops
       \/ ScoreNone
       \/ Scored
       \/ Finish

\* lines 42-46: main() is over or something was raised; the state is pushed
\* to the bucket, then the handler returns or the exception goes on.  The
\* locals of main() are gone with its frame
handler_finally ==
    /\ \/ aws.at = "finally"
       \/ aws.at = "main" /\ pc \in {"done", "raised"}
    /\ \E outcome \in PushOutcomes :
        aws' = [aws EXCEPT !.at = "cold", !.push = outcome,
                           !.s3 = IF outcome = "ok"
                                  THEN sync_data_to_s3(db, error_buffer, @) ELSE @]
    /\ cur' = NoCur /\ todo' = {} /\ it' = NoIt /\ obs' = NoObs
    /\ UNCHANGED <<now, db, owner, error_buffer, pc, runs, call, ret, ncalls>>

\* the time until the schedule invokes the handler again
handler_wait ==
    /\ aws.at = "cold"
    /\ Wait

NextLambda ==
    \/ handler_try
    \/ handler_main
    \/ handler_finally
    \/ handler_wait

SpecLambda == Init /\ [][NextLambda]_vars

----------------------------------------------------------------------------
(* The score parser on its own: every text of at most MaxLen characters *)

RECURSIVE Texts(_)
Texts(n) ==
    IF n = 0 THEN {<<>>}
    ELSE Texts(n - 1) \cup {Append(t, c) : t \in {x \in Texts(n - 1) : Len(x) = n - 1},
                                          c \in Alphabet}

InitParse ==
    /\ Init0
    /\ owner = "ok"
    /\ call \in {[fn |-> "score_wine", text |-> t] : t \in Texts(MaxLen)}
    /\ ret = <<"pending">>

\* scorer.py lines 26-35 on the text the oracle answered
Parse ==
    /\ call.fn = "score_wine"
    /\ ret[1] = "pending"
    /\ ret' = parse_score(call.text)
    /\ UNCHANGED <<db, run, call, ncalls>>

SpecParse == InitParse /\ [][Parse]_vars

----------------------------------------------------------------------------
(* The eligibility filter on its own: every price and price_range *)

InitFilter ==
    /\ Init0
    /\ owner = "ok"
    /\ call \in {[fn |-> "in_price_range", price |-> p, config |-> Config(pr, {}, <<"none">>)] :
                    p \in 0..MaxPrice, pr \in PriceRanges}
    /\ ret = <<"pending">>

\* config.py in_price_range(price, config)
Filter ==
    /\ call.fn = "in_price_range"
    /\ ret[1] = "pending"
    /\ ret' = <<in_price_range(call.price, call.config)>>
    /\ UNCHANGED <<db, run, call, ncalls>>

SpecFilter == InitFilter /\ [][Filter]_vars

----------------------------------------------------------------------------
(* The notification decision on its own *)

Thresholds == {<<"none">>, <<"other">>} \cup {<<"int", t>> : t \in {0, 50, 100}}
DecideScores == {0, 49, 50, 51, 100}

InitDecide ==
    /\ Init0
    /\ owner = "ok"
    /\ call \in {[fn |-> "should_notify", wine_name |-> n, score |-> sc,
                  config |-> [price_range |-> <<"missing">>, always_notify_for |-> a,
                              notify_threshold |-> th, never_notify_for |-> nv]] :
                    n \in Names, sc \in DecideScores, a \in SUBSET Names,
                    th \in Thresholds, nv \in SUBSET Names}
    /\ ret = <<"pending">>

\* last_bottle.py lines 102-111 for a scored user
Decide ==
    /\ call.fn = "should_notify"
    /\ ret[1] = "pending"
    /\ ret' = <<"bool", should_notify(call.wine_name, call.score, call.config)>>
    /\ UNCHANGED <<db, run, call, ncalls>>

SpecDecide == InitDecide /\ [][Decide]_vars

----------------------------------------------------------------------------
(* The store on its own: direct calls of add_wine and add_user_score *)

ScoreArgs == {MinScore - 1, MinScore, MaxScore, MaxScore + 1}
StampArgs == {None, Some(1)}

InitDb ==
    /\ Init0
    /\ owner = "ok"
    /\ call = [fn |-> "none"]
    /\ ret = <<"none">>

CallAddWine ==
    /\ ncalls < MaxCalls
    /\ \E wine_name \in Names, timestamp \in StampArgs :
        LET r == add_wine(db, wine_name, 3, timestamp)
        IN  /\ db' = r.db
            /\ ret' = r.result
            /\ call' = [fn |-> "add_wine", wine_name |-> wine_name,
                        timestamp |-> timestamp]
    /\ ncalls' = ncalls + 1
    /\ UNCHANGED run

CallAddUserScore ==
    /\ ncalls < MaxCalls
    /\ \E user_id \in {"alice", "jason"}, wine_id \in 1..2, score \in ScoreArgs,
          timestamp \in StampArgs :
        LET r == add_user_score(db, user_id, wine_id, score, timestamp)
        IN  /\ db' = r.db
            /\ ret' = r.result
            /\ call' = [fn |-> "add_user_score", user_id |-> user_id,
                        wine_id |-> wine_id, score |-> score, timestamp |-> timestamp]
    /\ ncalls' = ncalls + 1
    /\ UNCHANGED run

NextDb == CallAddWine \/ CallAddUserScore

SpecDb == InitDb /\ [][NextDb]_vars

----------------------------------------------------------------------------
(* The claims *)

\* C1: in a run over several profiles, a failure while one user is processed
\* does not keep any later file of the enumeration from being processed: a
\* run that entered the loop and is over has taken every file
C1_PerUserIsolation ==
    (obs.loop /\ pc \in {"done", "raised"}) => todo = {}

DupRecorded(name) ==
    \E w \in db.wines : w.wine_name = name /\ now - w.timestamp <= DupDays

\* C2: a run that acquires a name recorded within the last 7 days changes
\* nothing in the store, processes no user, calls no oracle and notifies no one
C2_DuplicateGuard ==
    [][(pc = "idle" /\ pc' # "idle" /\ cur'.wine_name # ""
            /\ DupRecorded(cur'.wine_name))
        => /\ db' = db
           /\ pc' \in {"done", "raised"}
           /\ todo' = {}
           /\ obs'.seen = {} /\ obs'.oracle = {} /\ obs'.notify = {}]_vars

C2_Witness ==
    /\ pc = "done"
    /\ runs = 2
    /\ cur.wine_name # "" /\ cur.wine_id = 0
    /\ DupRecorded(cur.wine_name)
    /\ Cardinality(db.wines) = 1
    /\ db.user_scores # {}

\* C3: every run that is over has called send_error_digest, whichever way it
\* ended, a failure inside the per-user loop included
C3_FlushOnEveryPath ==
    pc \in {"done", "raised"} => obs.flush = 1

\* C4: add_user_score with a score outside 0..100 raises and leaves the store
\* as it was, and every stored score is in 0..100
C4_ScoreRangeEnforced ==
    [][/\ \A r \in db'.user_scores : r.score \in 0..100
       /\ (ncalls' # ncalls /\ call'.fn = "add_user_score" /\ call'.score \notin 0..100)
            => (db' = db /\ ret'[1] = "raise")]_vars

C4_Witness ==
    /\ call.fn = "add_user_score"
    /\ call.score = 101
    /\ ret[1] = "raise"
    /\ db.user_scores # {}

SameKey(r1, r2) ==
    r1.user_id = r2.user_id /\ r1.wine_id = r2.wine_id /\ r1.timestamp = r2.timestamp

\* C5: the store holds at most one record per (user_id, wine_id, timestamp);
\* a write of a key that is there replaces the record: the score is the
\* later one and the number of records does not grow
C5_OneRecordPerKey ==
    [][/\ \A r1, r2 \in db'.user_scores : SameKey(r1, r2) => r1 = r2
       /\ (ncalls' # ncalls /\ call'.fn = "add_user_score" /\ ret'[1] = "ok")
            => LET key == [user_id |-> call'.user_id, wine_id |-> call'.wine_id,
                           timestamp |-> IF call'.timestamp = <<>> THEN now
                                         ELSE call'.timestamp[1]]
                   was == {r \in db.user_scores : SameKey(r, key)}
                   is == {r \in db'.user_scores : SameKey(r, key)}
               IN  /\ Cardinality(is) = 1
                   /\ \A r \in is : r.score = call'.score
                   /\ db'.user_scores \ is = db.user_scores \ was
                   /\ was # {} =>
                        Cardinality(db'.user_scores) = Cardinality(db.user_scores)]_vars

C5_Witness ==
    /\ call.fn = "add_user_score"
    /\ ret = <<"ok", 2>>
    /\ call.score = 100
    /\ Cardinality(db.user_scores) = 1
    /\ \A r \in db.user_scores : r.score = 100 /\ r.id = 2

\* C6: in_price_range is false exactly when the price is below a configured
\* minimum or above a configured maximum; a price equal to a bound is in
\* range; with no bound, or no price_range, the result is true
C6_PriceRange ==
    (call.fn = "in_price_range" /\ ret[1] # "pending") =>
        LET pr == call.config.price_range
            min == IF pr[1] = "pair" THEN pr[2] ELSE <<>>
            max == IF pr[1] = "pair" THEN pr[3] ELSE <<>>
            below == min # <<>> /\ call.price < min[1]
            above == max # <<>> /\ call.price > max[1]
        IN  /\ (ret[1] = "false") <=> (below \/ above)
            /\ pr[1] \in {"missing", "pair"} => ret[1] \in {"true", "false"}
            /\ (pr[1] \in {"missing", "pair"} /\ min = <<>> /\ max = <<>>) => ret[1] = "true"

C6_Witness ==
    /\ call.fn = "in_price_range"
    /\ call.price = 2
    /\ call.config.price_range = <<"pair", <<2>>, <<2>>>>
    /\ ret = <<"true">>

----------------------------------------------------------------------------
(* What the spec says of the score parser, stated on positions of the text *)

NonBlank(t) == \E i \in 1..Len(t) : ~IsSpace(t[i])

Max(S) == CHOOSE x \in S : \A y \in S : y <= x
Min(S) == CHOOSE x \in S : \A y \in S : x <= y

\* the last line of t that holds a character other than white space, without
\* the white space around it
LastLine(t) ==
    LET e == Max({i \in 1..Len(t) : ~IsSpace(t[i])})
        nls == {i \in 1..e : t[i] = "\n"}
        b0 == IF nls = {} THEN 1 ELSE Max(nls) + 1
        b == Min({i \in b0..e : ~IsSpace(t[i])})
    IN  SubSeq(t, b, e)

Value(line, i, j) ==
    IF j = i THEN DigitVal(line[i])
    ELSE IF j = i + 1 THEN 10 * DigitVal(line[i]) + DigitVal(line[j])
    ELSE 100 * DigitVal(line[i]) + 10 * DigitVal(line[i + 1]) + DigitVal(line[j])

\* the maximal runs of digits of line, as <<first, last>>
DigitRuns(line) ==
    {<<i, j>> \in (1..Len(line)) \X (1..Len(line)) :
        /\ i <= j
        /\ \A k \in i..j : line[k] \in Digits
        /\ (i = 1 \/ line[i - 1] \notin Digits)
        /\ (j = Len(line) \/ line[j + 1] \notin Digits)}

\* the runs of 1-3 digits that stand alone: no letter, digit or underscore
\* next to them
Tokens(line) ==
    {r \in DigitRuns(line) :
        /\ r[2] - r[1] < 3
        /\ (r[1] = 1 \/ ~IsWord(line[r[1] - 1]))
        /\ (r[2] = Len(line) \/ ~IsWord(line[r[2] + 1]))}

First(found) == CHOOSE r \in found : \A x \in found : r[1] <= x[1]

Verdict(line, found) ==
    IF found = {} THEN <<"none">>
    ELSE LET r == First(found)
             v == Value(line, r[1], r[2])
         IN  IF v <= 100 THEN <<"int", v>> ELSE <<"none">>

\* line is the decimal numeral of an integer in 0..100
ExactInt(line) ==
    /\ Len(line) \in 1..3
    /\ \A k \in 1..Len(line) : line[k] \in Digits
    /\ (Len(line) > 1 => line[1] # "0")
    /\ Value(line, 1, Len(line)) <= 100

\* C7 as amended: on a text with a non-blank line the parser takes the last
\* non-blank line, finds the first run of 1-3 digits that stands alone (no
\* letter, digit or underscore next to it) and returns its value if that is
\* in 0..100, else no score; every returned score is in 0..100; a last line
\* that is exactly an integer n of 0..100 yields n
C7_ParserStandalone ==
    (call.fn = "score_wine" /\ ret[1] # "pending") =>
        /\ ret[1] = "int" => ret[2] \in 0..100
        /\ NonBlank(call.text) =>
            LET line == LastLine(call.text)
            IN  /\ ret = Verdict(line, Tokens(line))
                /\ ExactInt(line) => ret = <<"int", Value(line, 1, Len(line))>>

C7_Witness ==
    /\ call.fn = "score_wine"
    /\ call.text = <<"a", "5", " ", "1">>
    /\ ret = <<"int", 1>>

\* C7 as claimed: the first run of 1-3 digits of the last line decides,
\* whatever stands next to it (stated for the lines with no longer run of
\* digits, where the first run of 1-3 digits is the first run of digits)
C7_FirstDigitRun ==
    (call.fn = "score_wine" /\ ret[1] # "pending" /\ NonBlank(call.text)) =>
        LET line == LastLine(call.text)
        IN  (\A r \in DigitRuns(line) : r[2] - r[1] < 3)
                => ret = Verdict(line, DigitRuns(line))

\* C8: the parser reports no score for an empty text, for a last line with
\* no digit, for a last line that is only a number above 100, and for a last
\* line that is a minus sign and a number
C8_RejectsBadText ==
    (call.fn = "score_wine" /\ ret[1] # "pending") =>
        LET t == call.text
            line == LastLine(t)
            all_digits(l) == l # <<>> /\ \A k \in 1..Len(l) : l[k] \in Digits
        IN  /\ t = <<>> => ret = <<"none">>
            /\ (NonBlank(t) /\ DigitRuns(line) = {}) => ret = <<"none">>
            /\ (NonBlank(t) /\ all_digits(line) /\ int(line) > 100) => ret = <<"none">>
            /\ (NonBlank(t) /\ line[1] = "-" /\ all_digits(Tail(line))) => ret = <<"none">>

\* C9: a scored user is notified if the wine's name is in the always-notify
\* list, whatever the score; otherwise exactly if a threshold is configured,
\* is an integer, and the score is at least the threshold
C9_NotifyRule ==
    (call.fn = "should_notify" /\ ret[1] = "bool") =>
        LET listed == call.wine_name \in call.config.always_notify_for
            th == call.config.notify_threshold
        IN  /\ listed => ret[2]
            /\ (~listed /\ th[1] = "int") => (ret[2] <=> call.score >= th[2])
            /\ (~listed /\ th[1] # "int") => ~ret[2]

C9_Witness ==
    /\ call.fn = "should_notify"
    /\ call.wine_name \notin call.config.always_notify_for
    /\ call.config.notify_threshold = <<"int", 50>>
    /\ call.score = 50
    /\ ret = <<"bool", TRUE>>

Excluded(price, config) ==
    /\ config.price_range[1] = "pair"
    /\ \/ config.price_range[2] # <<>> /\ price < config.price_range[2][1]
       \/ config.price_range[3] # <<>> /\ price > config.price_range[3][1]

\* C10: for a user whose price range excludes the offer's price the run calls
\* no oracle, stores no score and attempts no notification, also when the
\* offer's name is in that user's always-notify list
C10_FilterBeforeAlways ==
    (it.user \in obs.seen /\ Excluded(cur.price, it.config)) =>
        /\ it.user \notin obs.oracle
        /\ it.user \notin obs.notify
        /\ it.resp = <<"nocall">>
        /\ ~\E r \in db.user_scores : r.user_id = it.user /\ r.wine_id = cur.wine_id

C10_Witness ==
    /\ pc = "done"
    /\ it.user \in obs.seen
    /\ Excluded(cur.price, it.config)
    /\ cur.wine_name \in it.config.always_notify_for
    /\ obs.notify # {}

----------------------------------------------------------------------------
(* The scored user, the profiles that cannot be used, the failed send *)

Records(d, user_id, wine_id) ==
    {r \in d.user_scores : r.user_id = user_id /\ r.wine_id = wine_id}

\* the decision of lines 102-111, written out for the last iteration
Decision ==
    \/ cur.wine_name \in it.config.always_notify_for
    \/ /\ it.config.notify_threshold[1] = "int"
       /\ it.score[2] >= it.config.notify_threshold[2]

\* C11: a user of a recorded (non-duplicate) offer whose price range includes
\* the price and whose oracle answer parses to a score s has, from that
\* iteration to the end of the run, exactly one record for (user, offer), with
\* score s; notify_user is called for that user exactly once if the decision
\* is true and not at all if it is false
C11_ScoredUser ==
    [][/\ (todo' # todo /\ it'.resp[1] = "text" /\ parse_score(it'.resp[2])[1] = "int"
            /\ in_price_range(cur'.price, it'.config) = "true")
          => /\ Cardinality(Records(db', it'.user, cur'.wine_id)) = 1
             /\ \A r \in Records(db', it'.user, cur'.wine_id) :
                    /\ r.score = parse_score(it'.resp[2])[2]
                    /\ r.wine_name = cur'.wine_name
             /\ it'.score = parse_score(it'.resp[2])
             /\ it'.user \notin obs.notify
             /\ (it'.user \in obs'.notify) <=> Decision'
             /\ pc' = "loop"
       /\ (pc = "loop" /\ runs' = runs)
          => /\ db.user_scores \subseteq db'.user_scores
             /\ \A u \in obs.seen : (u \in obs'.notify) <=> (u \in obs.notify)
             /\ \A r \in db'.user_scores \ db.user_scores : r.user_id \notin obs.seen]_vars

C11_Witness ==
    /\ pc = "done"
    /\ runs = 1
    /\ Cardinality(db.user_scores) = 2
    /\ Cardinality(obs.notify) = 1
    /\ it.path = "scored"
    /\ \A u \in {"alice", "jason"} : Cardinality(Records(db, u, cur.wine_id)) = 1

\* a loaded config whose price_range is not a list: in_price_range cannot
\* index it
BadPriceRange(config) == config.price_range[1] \notin {"missing", "pair"}

\* C12: the iteration of a profile that cannot be loaded or whose
\* price_range is malformed skips that user and the loop goes on, and a run
\* that has taken every file ends as DONE
C12_MalformedNeverFatal ==
    [][/\ (todo' # todo /\ it'.user # "template"
            /\ (it'.path = "load_failed" \/ BadPriceRange(it'.config)))
          => /\ pc' = "loop"
             /\ db' = db
             /\ it'.user \notin obs'.oracle \cup obs'.notify
       /\ (pc = "loop" /\ todo = {} /\ pc' # "loop") => pc' = "done"]_vars

\* C13: when notify_user is called for a scored user and the send fails,
\* the record stored for that user is in the store and stays as it is for the
\* rest of the run, main() goes on with the loop, and the files not yet
\* taken are all still to be taken
C13_SendFailureCaught ==
    [][/\ (todo' # todo /\ it'.path = "scored" /\ it'.notify /\ ~it'.sent)
          => /\ pc' = "loop"
             /\ todo' = todo \ {it'.user}
             /\ error_buffer' = error_buffer
             /\ \E r \in Records(db', it'.user, cur'.wine_id) : r.score = it'.score[2]
       /\ (it.path = "scored" /\ it.notify /\ ~it.sent /\ runs' = runs /\ pc' # "idle")
          => Records(db', it.user, cur.wine_id) = Records(db, it.user, cur.wine_id)]_vars

C13_Witness ==
    /\ pc = "loop"
    /\ it.path = "scored" /\ it.notify /\ ~it.sent
    /\ Cardinality(Records(db, it.user, cur.wine_id)) = 1
    /\ todo \ {"template"} # {}

----------------------------------------------------------------------------
(* The error digest *)

\* C14: in a run of main() send_error_digest sends at most one email,
\* however many errors the buffer held and whichever way the run went; main()
\* calls it at most once
C14_OneDigestPerRun ==
    /\ obs.emails <= 1
    /\ obs.flush <= 1
    /\ obs.emails = 0 => obs.sent = {}

C14_Witness ==
    /\ pc = "done"
    /\ obs.emails = 1
    /\ Cardinality(obs.sent) = 2
    /\ obs.loop

\* C15: an error leaves the buffer only into a digest that was delivered: a
\* flush whose digest is not delivered (the send fails, jason.yaml is missing
\* or holds no address) keeps the buffered errors
C15_BufferedUntilDelivered ==
    [][\A e \in error_buffer : e \in error_buffer' \/ e \in obs'.sent]_vars

----------------------------------------------------------------------------
(* No offer; the template *)

C18_TemplateExcluded ==
    /\ \A r \in db.user_scores : r.user_id # "template"
    /\ "template" \notin obs.seen \cup obs.oracle \cup obs.notify
    /\ it.user = "template" => (it.resp = <<"nocall">> /\ ~it.notify /\ ~it.sent)

C18_Witness ==
    /\ pc = "done"
    /\ obs.loop
    /\ it.user = "template"
    /\ Cardinality(db.user_scores) = 2

----------------------------------------------------------------------------
(* The never-notify list *)

\* C19: the decision does not depend on never_notify_for: with the same
\* name, score, threshold and always-notify list, a profile with any other
\* never-notify list gets the same decision; a wine on the never-notify list
\* whose score is at least the integer threshold notifies
C19_NeverListNoVeto ==
    (call.fn = "should_notify" /\ ret[1] = "bool") =>
        /\ \A nv \in SUBSET Names :
              should_notify(call.wine_name, call.score,
                            [call.config EXCEPT !.never_notify_for = nv]) = ret[2]
        /\ (/\ call.wine_name \in call.config.never_notify_for
            /\ call.config.notify_threshold[1] = "int"
            /\ call.score >= call.config.notify_threshold[2]) => ret[2]

C19_Witness ==
    /\ call.fn = "should_notify"
    /\ call.wine_name = "Opus One"
    /\ call.config.never_notify_for = {"Opus One"}
    /\ call.config.always_notify_for = {}
    /\ call.config.notify_threshold = <<"int", 50>>
    /\ call.score = 51
    /\ ret = <<"bool", TRUE>>

----------------------------------------------------------------------------
(* Referential integrity of the store *)

\* C20: every score row's wine_id is the id of a row of wines and its
\* wine_name is that row's name; add_user_score with a wine_id that is not in
\* wines raises and leaves the store as it was; a row of wines, once written,
\* is never changed or removed
C20_ReferentialIntegrity ==
    [][/\ \A r \in db'.user_scores :
            \E w \in db'.wines : w.id = r.wine_id /\ w.wine_name = r.wine_name
       /\ (ncalls' # ncalls /\ call'.fn = "add_user_score"
            /\ ~\E w \in db.wines : w.id = call'.wine_id)
            => (ret'[1] = "raise" /\ db' = db)
       /\ db.wines \subseteq db'.wines
       /\ \A w1, w2 \in db'.wines : w1.id = w2.id => w1 = w2]_vars

C20_Witness ==
    /\ call.fn = "add_user_score"
    /\ call.wine_id = 2
    /\ call.score = MaxScore
    /\ ret[1] = "raise"
    /\ \E w \in db.wines : w.id = 1 /\ w.wine_name = "Table Red"
    /\ \E r \in db.user_scores : r.wine_id = 1 /\ r.wine_name = "Table Red"
    /\ Cardinality(db.wines) = 1

----------------------------------------------------------------------------
(* The Lambda handler *)

\* C16: main() starts only in an invocation whose sync_data_from_s3 has
\* returned and before its push; an invocation ends only through
\* sync_data_to_s3, which is called after main() is over (returned or
\* raised) or after the fetch raised, main() then not having started
C16_SyncBrackets ==
    [][/\ runs' # runs => (aws.at = "main" /\ aws.fetch = "ok" /\ aws.push = "none")
       /\ pc' \in {"loop"} => aws'.at = "main"
       /\ (aws.at # "cold" /\ aws'.at = "cold")
            => /\ aws'.push # "none"
               /\ \/ aws.fetch = "ok" /\ pc \in {"done", "raised"}
                  \/ aws.fetch = "raise" /\ pc = "idle" /\ runs' = runs
               /\ aws'.push = "ok" => aws'.s3 = sync_data_to_s3(db, error_buffer, aws.s3)
       /\ (aws.at = "cold" /\ aws'.at # "cold")
            => (aws'.push = "none" /\ aws'.fetch # "none" /\ pc' = "idle")
       /\ aws'.at = "finally" => (aws'.fetch = "raise" /\ aws'.push = "none")]_vars

C16_Witness ==
    /\ aws.at = "cold"
    /\ aws.fetch = "ok"
    /\ aws.push = "ok"
    /\ pc = "raised"
    /\ runs = 2
    /\ aws.s3.db = Some(db)
    /\ Cardinality(db.wines) = 1
    /\ aws.s3.error_buffer # None

\* C21: when an invocation ends, the bucket's copy of the error buffer
\* holds no error that the run of this invocation delivered in its digest
\* and cleared from the local buffer, so that no later invocation fetches
\* such an error and puts it into a digest again
C21_RemoteBufferFresh ==
    [][(aws.at = "main" /\ aws'.at = "cold" /\ aws'.push = "ok"
            /\ aws'.s3.error_buffer # None)
        => aws'.s3.error_buffer[1] \cap obs.sent = {}]_vars

====
